---- MODULE Spec2Model ----
(***************************************************************************)
(* A model of parglare's grammar compilation (src/parglare/grammar.py):    *)
(* the symbol and production objects, the transparent-EMPTY ProductionRHS, *)
(* the repetition desugaring of the grammar-file actions, the Grammar      *)
(* constructor with its phases, the import registry, and the lazily built  *)
(* parser of grammar files.                                                *)
(*                                                                         *)
(* Python objects live in two heaps: `syms` holds the GrammarSymbol        *)
(* instances and `prods` the Production instances; an object's identity is *)
(* its index in its heap.  Lists of productions are sequences of indices.  *)
(***************************************************************************)
EXTENDS Integers, Sequences, FiniteSets, TLC

VARIABLES
    syms,             \* heap of GrammarSymbol instances
    prods,            \* heap of Production instances
    productions,      \* the flat production list handed to Grammar()
    alts,             \* alternatives (RHS lists) reduced for the rule in progress
    cur,              \* assignments reduced for the alternative in progress
    ctx,              \* the parse Context: ignore_case, new_productions, counters
    pc,               \* the phase of the process: "parse", "parsed", "done", ...
    g,                \* outcome and attributes of the Grammar being constructed
    rhs_probe,        \* a ProductionRHS under test and the last __getitem__ on it
    pg_files,         \* the PGFiles registry: file path -> PGFile instance
    imports,          \* the PGFileImport objects and the parses performed
    grammar_parser,   \* the module global of line 1039: 0 (None) or a parser
    callers           \* the threads calling get_grammar_parser: position, locals

vars == <<syms, prods, productions, alts, cur, ctx, pc, g, rhs_probe,
          pg_files, imports, grammar_parser, callers>>

-----------------------------------------------------------------------------
(* Bounds of the model *)

MaxProds == 3          \* user productions in one compilation
MaxElems == 2          \* RHS elements written in one compilation
MaxCompilations == 2   \* independent top-level compilations in one process
MaxLen == 3            \* length of the backing sequence of a probed RHS
MaxImports == 3        \* PGFileImport objects sharing one registry
MaxCallers == 3        \* threads calling get_grammar_parser

-----------------------------------------------------------------------------
(* Recognizers (lines 135-202).  A recognizer is a record; `wb` marks the  *)
(* pattern \b<value>\b built by the keyword pass.                          *)

None == "None"

NoRecognizer ==
    [kind |-> "none", value |-> None, ignore_case |-> FALSE, wb |-> FALSE]

StringRecognizer(value, ignore_case) ==
    [kind |-> "str", value |-> value, ignore_case |-> ignore_case, wb |-> FALSE]

RegExRecognizer(regex, ignore_case) ==
    [kind |-> "regex", value |-> regex, ignore_case |-> ignore_case, wb |-> FALSE]

WordBoundaryRegEx(literal, ignore_case) ==
    [kind |-> "regex", value |-> literal, ignore_case |-> ignore_case, wb |-> TRUE]

FunctionRecognizer(name) ==
    [kind |-> "fn", value |-> name, ignore_case |-> FALSE, wb |-> FALSE]

(* The text of the literals the model uses, character by character. *)
Chars(s) ==
    CASE s = "if"  -> <<"i", "f">>
      [] s = "IF"  -> <<"I", "F">>
      [] s = "if+" -> <<"i", "f", "+">>
      [] s = "+"   -> <<"+">>
      [] OTHER     -> <<s>>

LowerOf(c) ==
    CASE c = "I" -> "i"
      [] c = "F" -> "f"
      [] OTHER   -> c

LowerLetters == {"i", "f"}

(* Does character c belong to the class the pattern repeats?  The model    *)
(* knows the patterns /[a-z]+/ and /[0-9]+/.                               *)
InClass(regex, ignore_case, c) ==
    CASE regex = "[a-z]+" -> (IF ignore_case THEN LowerOf(c) ELSE c) \in LowerLetters
      [] OTHER            -> FALSE

RECURSIVE MatchLen(_, _, _, _)
MatchLen(regex, ignore_case, in_str, pos) ==
    IF pos < Len(in_str) /\ InClass(regex, ignore_case, in_str[pos + 1])
    THEN 1 + MatchLen(regex, ignore_case, in_str, pos + 1)
    ELSE 0

(* RegExRecognizer.__call__: the text matched at pos, or no match. *)
RegExCall(rec, in_str, pos) ==
    LET n == MatchLen(rec.value, rec.ignore_case, in_str, pos)
    IN IF n = 0 THEN [matched |-> FALSE, text |-> <<>>]
       ELSE [matched |-> TRUE, text |-> SubSeq(in_str, pos + 1, pos + n)]

-----------------------------------------------------------------------------
(* Symbols (lines 40-132, 205-215) *)

NonTerminal(name) ==
    [kind |-> "NT", name |-> name, recognizer |-> NoRecognizer,
     keyword |-> FALSE, action_name |-> None, action |-> None,
     productions |-> <<>>]

Terminal(name, recognizer) ==
    [kind |-> "T", name |-> name, recognizer |-> recognizer,
     keyword |-> FALSE, action_name |-> None, action |-> None,
     productions |-> <<>>]

AUGSYMBOL == 1
STOP == 2
EMPTY == 3
EOF == 4

ModuleSymbols ==
    << NonTerminal("S'"),
       Terminal("STOP", FunctionRecognizer("STOP_recognizer")),
       Terminal("EMPTY", FunctionRecognizer("EMPTY_recognizer")),
       Terminal("EOF", FunctionRecognizer("EOF_recognizer")) >>

(* An element of a RHS: a Reference (a name only) or a symbol instance. *)
Reference(name) == [ref |-> TRUE, name |-> name, id |-> 0]
SymElem(heap, id) == [ref |-> FALSE, name |-> heap[id].name, id |-> id]
NoneElem == [ref |-> FALSE, name |-> None, id |-> 0]

IsTerminal(heap, e) == ~e.ref /\ e.id # 0 /\ heap[e.id].kind = "T"
IsNonTerminal(heap, e) == ~e.ref /\ e.id # 0 /\ heap[e.id].kind = "NT"

-----------------------------------------------------------------------------
(* ProductionRHS (lines 270-290) over the backing sequence b *)

\* `symbol is not EMPTY` compares identities
IsEMPTY(e) == ~e.ref /\ e.id = EMPTY

\* list.count(EMPTY) compares with ==, which GrammarSymbol defines by name
EqEMPTY(e) == e.name = "EMPTY"

RHSLen(b) == Len(b) - Cardinality({i \in DOMAIN b : EqEMPTY(b[i])})

RECURSIVE RHSGetItem(_, _)
RHSGetItem(b, idx) ==
    IF idx >= Len(b) THEN NoneElem
    ELSE IF ~IsEMPTY(b[idx + 1]) THEN b[idx + 1]
    ELSE RHSGetItem(b, idx + 1)

(* Production.__init__ (lines 237-257): a falsy rhs is replaced by a new,  *)
(* empty ProductionRHS.                                                    *)
Production(symbol, rhs, nops) ==
    [symbol |-> symbol,
     rhs |-> IF RHSLen(rhs) # 0 THEN rhs ELSE <<>>,
     nops |-> nops, prod_id |-> -1, prod_symbol_id |-> -1]

-----------------------------------------------------------------------------
(* Heap helpers *)

Alloc(heap, obj) == Append(heap, obj)
NewId(heap) == Len(heap) + 1

(* dict helpers: a dict is a function whose domain is its key set *)
EmptyDict == [k \in {} |-> 0]
DictSet(d, k, v) == [x \in (DOMAIN d) \cup {k} |-> IF x = k THEN v ELSE d[x]]
DictDel(d, k) == [x \in (DOMAIN d) \ {k} |-> d[x]]

-----------------------------------------------------------------------------
(* Repetition desugaring (lines 1240-1324).  A machine m carries the two   *)
(* heaps, context.new_productions (an insertion-ordered dict, kept as a    *)
(* sequence of entries) and the exception raised, if any; `nt` is the      *)
(* value returned.                                                         *)

Machine(s, p, np) == [syms |-> s, prods |-> p, np |-> np, err |-> None, nt |-> 0]

(* NPIndex that never finds an entry: no memo lookup *)
NPIndex_never(np, name) == 0

NPIndex(np, name) ==
    IF \E i \in DOMAIN np : np[i].name = name
    THEN CHOOSE i \in DOMAIN np : np[i].name = name
    ELSE 0

RepetitionName(gsymbol, sep_ref, suffix) ==
    IF sep_ref # NoneElem
    THEN gsymbol.name \o suffix \o "_" \o sep_ref.name
    ELSE gsymbol.name \o suffix

TextAction(name) == [is_text |-> TRUE, name |-> name]
CallableAction(name) == [is_text |-> FALSE, name |-> name]

RECURSIVE make_repetition(_, _, _, _, _)

(* prod_callable of make_one_or_more (lines 1265-1275) *)
OneOrMoreProds(m, new_nt, gsymbol, sep_ref) ==
    LET self == SymElem(m.syms, new_nt)
        first == IF sep_ref # NoneElem
                 THEN Production(new_nt, <<self, sep_ref, gsymbol>>, FALSE)
                 ELSE Production(new_nt, <<self, gsymbol>>, FALSE)
        second == Production(new_nt, <<gsymbol>>, FALSE)
        p1 == Alloc(m.prods, first)
        p2 == Alloc(p1, second)
    IN [syms |-> m.syms, prods |-> p2, np |-> m.np, err |-> None,
        out |-> <<Len(p1), Len(p2)>>]

make_one_or_more(m, gsymbol, sep_ref) ==
    make_repetition(m, gsymbol, sep_ref, "_1",
                    TextAction(IF sep_ref = NoneElem THEN "collect"
                               ELSE "collect_sep"))

(* ZeroOrMoreProds that builds its own one-or-more, ignoring earlier entries *)
ZeroOrMoreProds_own(m, new_nt, gsymbol, sep_ref) ==
    LET r == make_one_or_more([m EXCEPT !.np = <<>>], gsymbol, sep_ref)
        one_or_more == SymElem(r.syms, r.nt)
        p1 == Alloc(r.prods, Production(new_nt, <<one_or_more>>, TRUE))
        p2 == Alloc(p1, Production(new_nt, <<SymElem(r.syms, EMPTY)>>, FALSE))
    IN [syms |-> r.syms, prods |-> p2, np |-> m.np \o r.np, err |-> None,
        out |-> <<Len(p1), Len(p2)>>]

(* prod_callable of make_zero_or_more (lines 1286-1294) *)
ZeroOrMoreProds(m, new_nt, gsymbol, sep_ref) ==
    LET r == make_one_or_more(m, gsymbol, sep_ref)
        one_or_more == SymElem(r.syms, r.nt)
        p1 == Alloc(r.prods, Production(new_nt, <<one_or_more>>, TRUE))
        p2 == Alloc(p1, Production(new_nt, <<SymElem(r.syms, EMPTY)>>, FALSE))
    IN [syms |-> r.syms, prods |-> p2, np |-> r.np, err |-> None,
        out |-> <<Len(p1), Len(p2)>>]

(* OptionalProds that accepts a separator *)
OptionalProds_any_sep(m, new_nt, gsymbol, sep_ref) ==
    LET p1 == Alloc(m.prods, Production(new_nt, <<gsymbol>>, FALSE))
        p2 == Alloc(p1, Production(new_nt, <<SymElem(m.syms, EMPTY)>>, FALSE))
    IN [syms |-> m.syms, prods |-> p2, np |-> m.np, err |-> None,
        out |-> <<Len(p1), Len(p2)>>]

(* prod_callable of make_optional (lines 1307-1318) *)
OptionalProds(m, new_nt, gsymbol, sep_ref) ==
    IF sep_ref # NoneElem
    THEN [syms |-> m.syms, prods |-> m.prods, np |-> m.np,
          err |-> "GrammarError", out |-> <<>>]
    ELSE LET p1 == Alloc(m.prods, Production(new_nt, <<gsymbol>>, FALSE))
             p2 == Alloc(p1, Production(new_nt, <<SymElem(m.syms, EMPTY)>>, FALSE))
         IN [syms |-> m.syms, prods |-> p2, np |-> m.np, err |-> None,
             out |-> <<Len(p1), Len(p2)>>]

(* The prod_callable each caller hands to make_repetition goes with the    *)
(* suffix it hands over; it returns the machine after the callable ran,    *)
(* with the new productions' ids in its field `out`.                       *)
prod_callable(suffix, m, new_nt, gsymbol, sep_ref) ==
    CASE suffix = "_1" -> OneOrMoreProds(m, new_nt, gsymbol, sep_ref)
      [] suffix = "_0" -> ZeroOrMoreProds(m, new_nt, gsymbol, sep_ref)
      [] suffix = "_opt" -> OptionalProds(m, new_nt, gsymbol, sep_ref)

(* make_repetition (lines 1240-1261) *)
make_repetition(m, gsymbol, sep_ref, suffix, action) ==
    LET new_gsymbol_name == RepetitionName(gsymbol, sep_ref, suffix)
        hit == NPIndex(m.np, new_gsymbol_name)
    IN IF hit # 0
       THEN [m EXCEPT !.nt = m.np[hit].nt]
       ELSE LET new_nt == NewId(m.syms)
                sym == IF action.is_text
                       THEN [NonTerminal(new_gsymbol_name)
                               EXCEPT !.action_name = action.name]
                       ELSE [NonTerminal(new_gsymbol_name)
                               EXCEPT !.action = action.name]
                m1 == [m EXCEPT !.syms = Alloc(m.syms, sym)]
                c == prod_callable(suffix, m1, new_nt, gsymbol, sep_ref)
            IN IF c.err # None
               THEN [syms |-> c.syms, prods |-> c.prods, np |-> c.np,
                     err |-> c.err, nt |-> 0]
               ELSE [syms |-> c.syms, prods |-> c.prods,
                     np |-> Append(c.np, [name |-> new_gsymbol_name,
                                          nt |-> new_nt, prods |-> c.out]),
                     err |-> None, nt |-> new_nt]

make_zero_or_more(m, gsymbol, sep_ref) ==
    make_repetition(m, gsymbol, sep_ref, "_0", CallableAction("action"))

make_optional(m, gsymbol, sep_ref) ==
    make_repetition(m, gsymbol, sep_ref, "_opt", TextAction("optional"))

-----------------------------------------------------------------------------
(* Grammar construction (lines 372-672).  A construction state st carries  *)
(* the heaps, the production list (the caller's list object, mutated in    *)
(* place), the attributes of the Grammar and the exception raised, if any. *)

SPECIAL_SYMBOL_NAMES == {"KEYWORD", "LAYOUT"}

\* the names parglare.actions is known to define (line 9)
BuiltinActions == {"pass_single", "pass_none", "collect", "collect_sep"}

Raise(st, exc) == [st EXCEPT !.err = exc]

(* _resolve_action (lines 564-583) *)
resolve_action(st, old_symbol, new_symbol) ==
    LET an == st.syms[new_symbol].action_name
    IN IF an = None THEN st
       ELSE IF an # st.syms[old_symbol].action_name THEN Raise(st, "GrammarError")
       ELSE IF an \in BuiltinActions
            THEN [st EXCEPT !.syms[new_symbol].action = an]
            ELSE st

(* The body of the loop of collect_symbols / _collect_grammar_symbols      *)
(* (lines 391-416 and 517-542) for the production p.                       *)
CollectOne(st, p) ==
    LET psym == st.prods[p].symbol
        name == st.syms[psym].name
        rhs == st.prods[p].rhs
        has_prev == name \in DOMAIN st.by_name
        prev == IF has_prev THEN st.by_name[name] ELSE 0
        promote == st.syms[psym].kind = "T" /\ has_prev /\ st.syms[prev].kind = "T"
        reuse == st.syms[psym].kind = "T" /\ has_prev /\ st.syms[prev].kind = "NT"
        register == /\ st.syms[psym].kind = "T" /\ ~has_prev /\ RHSLen(rhs) # 0
                    /\ RHSGetItem(rhs, 0).name \notin SPECIAL_SYMBOL_NAMES
        stale == {k \in DOMAIN st.recog : st.syms[st.recog[k]].name = name}
        new_symbol == IF promote THEN NewId(st.syms)
                      ELSE IF reuse THEN prev ELSE psym
        st1 == IF promote
               THEN [st EXCEPT !.syms = Alloc(st.syms, NonTerminal(name)),
                               !.recog = IF stale = {} THEN st.recog
                                         ELSE DictDel(st.recog, CHOOSE k \in stale : TRUE)]
               ELSE IF register
               THEN IF name \in DOMAIN st.recog
                    THEN Raise(st, "AssertionError")
                    ELSE [st EXCEPT !.recog = DictSet(st.recog, RHSGetItem(rhs, 0).name,
                                                      psym)]
               ELSE st
        st2 == IF st1.err # None THEN st1 ELSE resolve_action(st1, psym, new_symbol)
    IN IF st2.err # None THEN st2
       ELSE [st2 EXCEPT !.by_name = DictSet(st2.by_name, name, new_symbol)]

RECURSIVE CollectFrom(_, _)
CollectFrom(st, i) ==
    IF st.err # None \/ i > Len(st.list) THEN st
    ELSE CollectFrom(CollectOne(st, st.list[i]), i + 1)

(* PGFile.collect_symbols (lines 385-416) *)
collect_symbols(st) ==
    CollectFrom([st EXCEPT !.by_name = EmptyDict, !.recog = EmptyDict], 1)

(* Grammar._collect_grammar_symbols (lines 508-547) *)
collect_grammar_symbols(st) ==
    LET c == collect_symbols(st)
        vals == {c.by_name[k] : k \in DOMAIN c.by_name}
    IN IF c.err # None THEN c
       ELSE [c EXCEPT !.terminals = {x \in vals : c.syms[x].kind = "T"},
                      !.nonterminals = {x \in vals : c.syms[x].kind = "NT"}]

(* set.add / set.update: symbols hash and compare by name *)
SetAdd(heap, set, x) ==
    IF \E y \in set : heap[y].name = heap[x].name THEN set ELSE set \cup {x}

(* The argument `recognizers` of the constructors: not given (None), or a  *)
(* dict name -> recognizer.                                                *)
NoRecognizers == [given |-> FALSE, map |-> EmptyDict]
Recognizers(map) == [given |-> TRUE, map |-> map]

(* The attribute `recognizers` of a PGFile.  PGFile.__init__ takes the     *)
(* argument and does not store it (lines 372-383), and Grammar.__init__    *)
(* does not either (lines 432-450): the attribute is never assigned.       *)
UnassignedRecognizers == [assigned |-> FALSE, value |-> NoRecognizers]

(* Grammar._check_connect_recognizers (lines 549-562): the attribute       *)
(* `recognizers` is read on the first terminal visited.  Were it assigned, *)
(* a terminal without recognizer and without entry raises GrammarError and *)
(* every terminal with an entry is rebound to it.                          *)
check_connect_recognizers(st) ==
    IF st.terminals = {} THEN st
    ELSE IF ~st.recognizers.assigned THEN Raise(st, "AttributeError")
    ELSE LET map == st.recognizers.value.map
             missing == {t \in st.terminals :
                            /\ st.syms[t].recognizer.kind = "none"
                            /\ st.syms[t].name \notin DOMAIN map}
         IN IF missing # {} THEN Raise(st, "GrammarError")
            ELSE [st EXCEPT !.syms = [x \in DOMAIN st.syms |->
                    IF x \in st.terminals /\ st.syms[x].name \in DOMAIN map
                    THEN [st.syms[x] EXCEPT !.recognizer = map[st.syms[x].name]]
                    ELSE st.syms[x]]]

(* ResolveRef that reports the conflict whatever the LHS of the production *)
ResolveRef_any_lhs(st, p, i) ==
    LET ref == st.prods[p].rhs[i]
        lhs == st.prods[p].symbol
    IN IF ref.name \in DOMAIN st.by_name
       THEN [st EXCEPT !.prods[p].rhs[i] = SymElem(st.syms, st.by_name[ref.name])]
       ELSE IF ref.name \in DOMAIN st.recog
       THEN [Raise(st, "GrammarError") EXCEPT !.msg =
                <<"already exists by the name", ref.name, st.syms[lhs].name,
                  st.syms[st.recog[ref.name]].name>>]
       ELSE IF ~IsTerminal(st.syms, ref)
       THEN [Raise(st, "GrammarError") EXCEPT !.msg =
                <<"Unknown symbol", ref.name, st.syms[lhs].name>>]
       ELSE IF ref.name \in DOMAIN st.rec_to_term
       THEN [st EXCEPT !.prods[p].rhs[i] = SymElem(st.syms, st.rec_to_term[ref.name])]
       ELSE [st EXCEPT !.rec_to_term = DictSet(st.rec_to_term, ref.name, ref.id),
                       !.terminals = SetAdd(st.syms, st.terminals, ref.id)]

(* ResolveRef without the literal -> Terminal cache rec_to_term *)
ResolveRef_no_cache(st, p, i) ==
    LET ref == st.prods[p].rhs[i]
        lhs == st.prods[p].symbol
    IN IF ref.name \in DOMAIN st.by_name
       THEN [st EXCEPT !.prods[p].rhs[i] = SymElem(st.syms, st.by_name[ref.name])]
       ELSE IF st.syms[lhs].kind = "NT" /\ ref.name \in DOMAIN st.recog
       THEN [Raise(st, "GrammarError") EXCEPT !.msg =
                <<"already exists by the name", ref.name, st.syms[lhs].name,
                  st.syms[st.recog[ref.name]].name>>]
       ELSE IF ~IsTerminal(st.syms, ref)
       THEN [Raise(st, "GrammarError") EXCEPT !.msg =
                <<"Unknown symbol", ref.name, st.syms[lhs].name>>]
       ELSE [st EXCEPT !.terminals = SetAdd(st.syms, st.terminals, ref.id)]

(* The body of the inner loop of _resolve_references (lines 602-635) for   *)
(* the element at backing position i of production p.                      *)
ResolveRef(st, p, i) ==
    LET ref == st.prods[p].rhs[i]
        lhs == st.prods[p].symbol
    IN IF ref.name \in DOMAIN st.by_name
       THEN [st EXCEPT !.prods[p].rhs[i] = SymElem(st.syms, st.by_name[ref.name])]
       ELSE IF st.syms[lhs].kind = "NT" /\ ref.name \in DOMAIN st.recog
       THEN [Raise(st, "GrammarError") EXCEPT !.msg =
                <<"already exists by the name", ref.name, st.syms[lhs].name,
                  st.syms[st.recog[ref.name]].name>>]
       ELSE IF ~IsTerminal(st.syms, ref)
       THEN [Raise(st, "GrammarError") EXCEPT !.msg =
                <<"Unknown symbol", ref.name, st.syms[lhs].name>>]
       ELSE IF ref.name \in DOMAIN st.rec_to_term
       THEN [st EXCEPT !.prods[p].rhs[i] = SymElem(st.syms, st.rec_to_term[ref.name])]
       ELSE [st EXCEPT !.rec_to_term = DictSet(st.rec_to_term, ref.name, ref.id),
                       !.terminals = SetAdd(st.syms, st.terminals, ref.id)]

RECURSIVE ResolveRhsFrom(_, _, _)

(* ResolveRhsFrom that patches the first element only *)
ResolveRhs_first_only(st, p, i) ==
    IF st.err # None \/ i > Len(st.prods[p].rhs) THEN st
    ELSE ResolveRef(st, p, i)

ResolveRhsFrom(st, p, i) ==
    IF st.err # None \/ i > Len(st.prods[p].rhs) THEN st
    ELSE ResolveRhsFrom(ResolveRef(st, p, i), p, i + 1)

(* ResolveOne that leaves the LHS of the production as it was declared *)
ResolveOne_keep_lhs(st, p) ==
    LET name == st.syms[st.prods[p].symbol].name
        canon == st.prods[p].symbol
        st2 == IF st.syms[canon].kind = "NT"
               THEN [st EXCEPT !.syms[canon].productions = Append(@, p)]
               ELSE st
    IN ResolveRhsFrom(st2, p, 1)

(* ResolveOne that records a production with the LHS it was declared with *)
ResolveOne_append_first(st, p) ==
    LET name == st.syms[st.prods[p].symbol].name
        declared == st.prods[p].symbol
        canon == IF name \in DOMAIN st.by_name THEN st.by_name[name]
                 ELSE st.prods[p].symbol
        st1 == IF st.syms[declared].kind = "NT"
               THEN [st EXCEPT !.syms[declared].productions = Append(@, p)]
               ELSE st
        st2 == [st1 EXCEPT !.prods[p].symbol = canon]
    IN ResolveRhsFrom(st2, p, 1)

(* The body of the outer loop of _resolve_references (lines 594-600) *)
ResolveOne(st, p) ==
    LET name == st.syms[st.prods[p].symbol].name
        canon == IF name \in DOMAIN st.by_name THEN st.by_name[name]
                 ELSE st.prods[p].symbol
        st1 == [st EXCEPT !.prods[p].symbol = canon]
        st2 == IF st1.syms[canon].kind = "NT"
               THEN [st1 EXCEPT !.syms[canon].productions = Append(@, p)]
               ELSE st1
    IN ResolveRhsFrom(st2, p, 1)

RECURSIVE ResolveFrom(_, _)
ResolveFrom(st, i) ==
    IF st.err # None \/ i > Len(st.list) THEN st
    ELSE ResolveFrom(ResolveOne(st, st.list[i]), i + 1)

(* Grammar._resolve_references (lines 585-635) *)
resolve_references(st) ==
    ResolveFrom([st EXCEPT !.rec_to_term = EmptyDict], 1)

(* Removal of the terminal productions (lines 496-503) *)
prune_terminal_productions(st) ==
    LET Keep(p) == \/ st.syms[st.prods[p].symbol].kind = "NT"
                   \/ st.syms[st.prods[p].symbol].name = "LAYOUT"
        non_term_productions == SelectSeq(st.list, Keep)
    IN IF Len(non_term_productions) > 1
       THEN [st EXCEPT !.list = non_term_productions]
       ELSE st

(* Grammar._enumerate_productions (lines 637-646); idx_per_symbol is keyed *)
(* by symbol, hence by name.                                               *)
enumerate_productions(st) ==
    LET NameAt(i) == st.syms[st.prods[st.list[i]].symbol].name
        Earlier(i) == Cardinality({j \in 1..(i - 1) : NameAt(j) = NameAt(i)})
        Pos(p) == CHOOSE i \in DOMAIN st.list : st.list[i] = p
        InList == {st.list[i] : i \in DOMAIN st.list}
    IN [st EXCEPT !.prods = [p \in DOMAIN st.prods |->
            IF p \in InList
            THEN [st.prods[p] EXCEPT !.prod_id = Pos(p) - 1,
                                     !.prod_symbol_id = Earlier(Pos(p))]
            ELSE st.prods[p]]]

(* Grammar.get_terminal (lines 674-678); 0 stands for None *)
get_terminal(st, name) ==
    IF \E t \in st.terminals : st.syms[t].name = name
    THEN CHOOSE t \in st.terminals : st.syms[t].name = name
    ELSE 0

(* FixKeyword that accepts any match at position 0 *)
FixKeyword_any_match(keyword_rec, term) ==
    IF term.recognizer.kind = "str"
    THEN LET match == RegExCall(keyword_rec, Chars(term.recognizer.value), 0)
         IN IF match.matched
            THEN [term EXCEPT !.recognizer =
                                 WordBoundaryRegEx(term.recognizer.value,
                                                   term.recognizer.ignore_case),
                              !.keyword = TRUE]
            ELSE term
    ELSE term

(* The body of the loop of _fix_keyword_terminals (lines 665-672) *)
FixKeyword(keyword_rec, term) ==
    IF term.recognizer.kind = "str"
    THEN LET match == RegExCall(keyword_rec, Chars(term.recognizer.value), 0)
         IN IF match.matched /\ match.text = Chars(term.recognizer.value)
            THEN [term EXCEPT !.recognizer =
                                 WordBoundaryRegEx(term.recognizer.value,
                                                   term.recognizer.ignore_case),
                              !.keyword = TRUE]
            ELSE term
    ELSE term

(* Grammar._fix_keyword_terminals (lines 648-672) *)
fix_keyword_terminals(st) ==
    LET keyword_term == get_terminal(st, "KEYWORD")
    IN IF keyword_term = 0 THEN st
       ELSE IF st.syms[keyword_term].recognizer.kind # "regex"
       THEN Raise(st, "GrammarError")
       ELSE [st EXCEPT !.syms = [x \in DOMAIN st.syms |->
                IF x \in st.terminals
                THEN FixKeyword(st.syms[keyword_term].recognizer, st.syms[x])
                ELSE st.syms[x]]]

-----------------------------------------------------------------------------
(* Grammar.__init__ and _init_grammar as one computation *)

(* PGFile.__init__ (lines 372-383): path.realpath(file_path) comes first   *)
(* and raises TypeError for the default file_path of None.                 *)
pgfile_init(st, file_path) ==
    IF file_path = None THEN Raise(st, "TypeError") ELSE collect_symbols(st)

(* Lines 452-463: an unmatched name leaves the attribute unset (0) *)
determine_start_symbol(st, start_symbol) ==
    IF start_symbol # None
    THEN LET hits == {i \in DOMAIN st.list :
                        st.syms[st.prods[st.list[i]].symbol].name = start_symbol}
             last == CHOOSE i \in hits : \A j \in hits : j <= i
         IN IF hits = {} THEN [st EXCEPT !.start = 0]
            ELSE [st EXCEPT !.start = st.prods[st.list[last]].symbol]
    ELSE [st EXCEPT !.start = st.prods[st.list[1]].symbol]

(* insert_augmented with the augmented production appended, not inserted *)
insert_augmented_at_end(st) ==
    IF st.start = 0 THEN Raise(st, "AttributeError")
    ELSE LET aug == Production(AUGSYMBOL,
                               <<SymElem(st.syms, st.start), SymElem(st.syms, STOP)>>,
                               FALSE)
         IN [st EXCEPT !.prods = Alloc(st.prods, aug),
                       !.list = st.list \o <<NewId(st.prods)>>]

(* Lines 476-480 *)
insert_augmented(st) ==
    IF st.start = 0 THEN Raise(st, "AttributeError")
    ELSE LET aug == Production(AUGSYMBOL,
                               <<SymElem(st.syms, st.start), SymElem(st.syms, STOP)>>,
                               FALSE)
         IN [st EXCEPT !.prods = Alloc(st.prods, aug),
                       !.list = <<NewId(st.prods)>> \o st.list]

(* Lines 484-488 *)
add_special_terminals(st) ==
    [st EXCEPT !.by_name = DictSet(DictSet(DictSet(st.by_name, "EMPTY", EMPTY),
                                           "EOF", EOF), "STOP", STOP),
               !.terminals = SetAdd(st.syms, SetAdd(st.syms,
                                 SetAdd(st.syms, st.terminals, EMPTY), EOF), STOP)]

(* One statement of Grammar.__init__ / _init_grammar *)
Phase(name, st, file_path, start_symbol, no_check_recognizers) ==
    CASE name = "PGFile.__init__" -> pgfile_init(st, file_path)
      [] name = "start_symbol" -> determine_start_symbol(st, start_symbol)
      [] name = "insert" -> insert_augmented(st)
      [] name = "_collect_grammar_symbols" -> collect_grammar_symbols(st)
      [] name = "special terminals" -> add_special_terminals(st)
      [] name = "_check_connect_recognizers" ->
            IF no_check_recognizers THEN st ELSE check_connect_recognizers(st)
      [] name = "_resolve_references" -> resolve_references(st)
      [] name = "terminal productions" -> prune_terminal_productions(st)
      [] name = "_enumerate_productions" -> enumerate_productions(st)
      [] name = "_fix_keyword_terminals" -> fix_keyword_terminals(st)

(* GrammarPhases with the productions enumerated before the terminal      *)
(* productions are removed                                                 *)
GrammarPhases_enumerate_first ==
    << "PGFile.__init__", "start_symbol", "insert", "_collect_grammar_symbols",
       "special terminals", "_check_connect_recognizers", "_resolve_references",
       "_enumerate_productions", "terminal productions", "_fix_keyword_terminals" >>

(* Grammar.__init__ (lines 432-465) followed by Grammar._init_grammar      *)
(* (lines 467-506): the statements in order, ended by the first exception. *)
GrammarPhases ==
    << "PGFile.__init__", "start_symbol", "insert", "_collect_grammar_symbols",
       "special terminals", "_check_connect_recognizers", "_resolve_references",
       "terminal productions", "_enumerate_productions", "_fix_keyword_terminals" >>

RECURSIVE RunPhases(_, _, _, _, _)
RunPhases(phases, st, file_path, start_symbol, no_check_recognizers) ==
    IF phases = <<>> \/ st.err # None THEN st
    ELSE RunPhases(Tail(phases),
                   Phase(Head(phases), st, file_path, start_symbol,
                         no_check_recognizers),
                   file_path, start_symbol, no_check_recognizers)

grammar_init(st, file_path, start_symbol, no_check_recognizers) ==
    RunPhases(GrammarPhases, st, file_path, start_symbol, no_check_recognizers)

NoGrammar ==
    [outcome |-> None, message |-> <<>>, file_path |-> None, no_check |-> FALSE,
     start_arg |-> None, start_symbol |-> 0,
     symbols_by_name |-> EmptyDict, recog_to_terminals |-> EmptyDict,
     terminals |-> {}, nonterminals |-> {}, recognizers |-> NoRecognizers,
     before |-> [productions |-> <<>>, prods |-> <<>>, syms |-> <<>>]]

-----------------------------------------------------------------------------
(* The state after module import (lines 205-215, 1039) and a fresh Context *)

NewContext(ignore_case, ncomp) ==
    [ignore_case |-> ignore_case, new_productions |-> <<>>, nelems |-> 0,
     last_rule |-> 0, ncomp |-> ncomp]

NoProbe == [backing |-> <<>>, idx |-> -1, item |-> NoneElem, len |-> -1]
NoResult == [obj |-> 0, outcome |-> None, value |-> 0]
NoImports == [objs |-> <<>>, parses |-> <<>>, result |-> NoResult]

ParseInit(ignore_case) ==
    /\ syms = ModuleSymbols
    /\ prods = <<>>
    /\ productions = <<>>
    /\ alts = <<>>
    /\ cur = <<>>
    /\ ctx = NewContext(ignore_case, 1)
    /\ pc = "parse"
    /\ g = NoGrammar
    /\ rhs_probe = NoProbe
    /\ pg_files = EmptyDict
    /\ imports = NoImports
    /\ grammar_parser = 0
    /\ callers = <<>>

-----------------------------------------------------------------------------
(* The actions of the grammar-file parser (lines 1054-1410) *)

ParseFails ==
    /\ pc' = "failed"
    /\ g' = [NoGrammar EXCEPT !.outcome = "GrammarError"]

(* GrammarSymbol / Recognizer actions (lines 1395-1410, 1439-1442) followed *)
(* by act_repeatable_gsymbol (lines 1327-1378) and act_assignment.         *)
(* gs.kind is "ref" for a name, "str" for a quoted literal; sep is the     *)
(* separator name or None.                                                 *)
ActRepeatableGSymbol(gs, rep_op, sep) ==
    /\ pc = "parse"
    /\ ctx.nelems < MaxElems
    /\ cur # <<>> \/ Len(productions) + Len(alts) < MaxProds
    /\ LET heap0 == IF gs.kind = "ref" THEN syms
                    ELSE Alloc(syms, Terminal(gs.text,
                                   StringRecognizer(gs.text, ctx.ignore_case)))
           gsymbol == IF gs.kind = "ref" THEN Reference(gs.text)
                      ELSE SymElem(heap0, Len(heap0))
           sep_ref == IF sep = None THEN NoneElem ELSE Reference(sep)
           m == Machine(heap0, prods, ctx.new_productions)
           r == CASE rep_op = "*" -> make_zero_or_more(m, gsymbol, sep_ref)
                  [] rep_op = "+" -> make_one_or_more(m, gsymbol, sep_ref)
                  [] rep_op = "?" -> make_optional(m, gsymbol, sep_ref)
                  [] OTHER -> m
           symbol == IF rep_op = None THEN gsymbol ELSE SymElem(r.syms, r.nt)
       IN /\ syms' = r.syms
          /\ prods' = r.prods
          /\ ctx' = [ctx EXCEPT !.new_productions = r.np,
                                !.nelems = @ + 1, !.last_rule = 0]
          /\ IF r.err # None
             THEN ParseFails /\ UNCHANGED cur
             ELSE cur' = Append(cur, symbol) /\ UNCHANGED <<pc, g>>
    /\ UNCHANGED <<productions, alts, rhs_probe, pg_files, imports,
                   grammar_parser, callers>>

(* act_production (lines 1176-1195): one alternative is complete *)
ActProduction ==
    /\ pc = "parse"
    /\ cur # <<>>
    /\ alts' = Append(alts, cur)
    /\ cur' = <<>>
    /\ UNCHANGED <<syms, prods, productions, ctx, pc, g, rhs_probe, pg_files,
                   imports,
                   grammar_parser, callers>>

RECURSIVE AllocProductions(_, _, _)
AllocProductions(heap, symbol, rhss) ==
    IF rhss = <<>> THEN heap
    ELSE AllocProductions(Alloc(heap, Production(symbol, Head(rhss), FALSE)),
                          symbol, Tail(rhss))

(* act_production_rule (lines 1088-1173) and act_rules (lines 1072-1075) *)
ActProductionRule(name) ==
    /\ pc = "parse"
    /\ alts # <<>>
    /\ cur = <<>>
    /\ syms' = Alloc(syms, NonTerminal(name))
    /\ prods' = AllocProductions(prods, NewId(syms), alts)
    /\ productions' = productions \o [i \in 1..Len(alts) |-> Len(prods) + i]
    /\ alts' = <<>>
    /\ ctx' = [ctx EXCEPT !.last_rule = Len(prods) + 1]
    /\ UNCHANGED <<cur, pc, g, rhs_probe, pg_files, imports,
                   grammar_parser, callers>>

(* act_term_rule (lines 1215-1225) with the Recognizer action; body.kind   *)
(* is "str" or "regex".                                                    *)
ActTermRule(name, body) ==
    /\ pc = "parse"
    /\ alts = <<>>
    /\ cur = <<>>
    /\ Len(productions) < MaxProds
    /\ LET rec == IF body.kind = "str"
                  THEN StringRecognizer(body.text, ctx.ignore_case)
                  ELSE RegExRecognizer(body.text, ctx.ignore_case)
           h1 == Alloc(syms, Terminal(body.text, rec))
           h2 == Alloc(h1, Terminal(name, rec))
       IN /\ syms' = h2
          /\ prods' = Alloc(prods, Production(Len(h2), <<SymElem(h1, Len(h1))>>, FALSE))
    /\ productions' = Append(productions, NewId(prods))
    /\ ctx' = [ctx EXCEPT !.last_rule = NewId(prods)]
    /\ UNCHANGED <<alts, cur, pc, g, rhs_probe, pg_files, imports,
                   grammar_parser, callers>>

(* act_term_rule_empty_body (lines 1228-1237) *)
ActTermRuleEmptyBody(name) ==
    /\ pc = "parse"
    /\ alts = <<>>
    /\ cur = <<>>
    /\ Len(productions) < MaxProds
    /\ syms' = Alloc(syms, Terminal(name, NoRecognizer))
    /\ prods' = Alloc(prods, Production(NewId(syms), <<>>, FALSE))
    /\ productions' = Append(productions, NewId(prods))
    /\ ctx' = [ctx EXCEPT !.last_rule = NewId(prods)]
    /\ UNCHANGED <<alts, cur, pc, g, rhs_probe, pg_files, imports,
                   grammar_parser, callers>>

(* act_rule_with_action (lines 1078-1085) on the rule just reduced *)
ActRuleWithAction(action) ==
    /\ pc = "parse"
    /\ ctx.last_rule # 0
    /\ syms' = [syms EXCEPT ![prods[ctx.last_rule].symbol].action_name = action]
    /\ ctx' = [ctx EXCEPT !.last_rule = 0]
    /\ UNCHANGED <<prods, productions, alts, cur, pc, g, rhs_probe, pg_files,
                   imports,
                   grammar_parser, callers>>

RECURSIVE NewProductionsOf(_)
NewProductionsOf(np) ==
    IF np = <<>> THEN <<>> ELSE Head(np).prods \o NewProductionsOf(Tail(np))

(* act_pgfile (lines 1054-1062) *)
ActPGFile ==
    /\ pc = "parse"
    /\ alts = <<>>
    /\ cur = <<>>
    /\ productions # <<>>
    /\ productions' = productions \o NewProductionsOf(ctx.new_productions)
    /\ pc' = "parsed"
    /\ ctx' = [ctx EXCEPT !.last_rule = 0]
    /\ UNCHANGED <<syms, prods, alts, cur, g, rhs_probe, pg_files, imports,
                   grammar_parser, callers>>

(* Grammar(productions, file_path=..., recognizers=..., start_symbol=...,  *)
(*         _no_check_recognizers=...) (lines 432-465)                      *)
GrammarInitWith(file_path, recognizers, start_symbol, no_check_recognizers) ==
    /\ pc = "parsed"
    /\ LET st0 == [err |-> None, msg |-> <<>>, syms |-> syms, prods |-> prods,
                   list |-> productions, by_name |-> EmptyDict,
                   recog |-> EmptyDict, rec_to_term |-> EmptyDict,
                   terminals |-> {}, nonterminals |-> {}, start |-> 0,
                   recognizers |-> UnassignedRecognizers]
           st == grammar_init(st0, file_path, start_symbol, no_check_recognizers)
       IN /\ syms' = st.syms
          /\ prods' = st.prods
          /\ productions' = st.list
          /\ g' = [outcome |-> IF st.err = None THEN "ok" ELSE st.err,
                   message |-> st.msg,
                   file_path |-> file_path, no_check |-> no_check_recognizers,
                   start_arg |-> start_symbol, start_symbol |-> st.start,
                   symbols_by_name |-> st.by_name,
                   recog_to_terminals |-> st.recog,
                   terminals |-> st.terminals, nonterminals |-> st.nonterminals,
                   recognizers |-> recognizers,
                   before |-> [productions |-> productions, prods |-> prods,
                               syms |-> syms]]
    /\ pc' = "done"
    /\ UNCHANGED <<alts, cur, ctx, rhs_probe, pg_files, imports,
                   grammar_parser, callers>>

(* The same without the argument `recognizers` (its default is None) *)
GrammarInit(file_path, start_symbol, no_check_recognizers) ==
    GrammarInitWith(file_path, NoRecognizers, start_symbol, no_check_recognizers)

(* A further, independent top-level compilation in the same process.  The  *)
(* module-level symbols persist; the objects of the finished compilation   *)
(* are reachable by the new one only through them, and the productions     *)
(* left in a module-level symbol are kept as opaque identities (negative   *)
(* numbers, one per compilation).                                          *)
NewCompilation(ignore_case) ==
    /\ pc \in {"done", "failed"}
    /\ ctx.ncomp < MaxCompilations
    /\ syms' = [i \in DOMAIN ModuleSymbols |->
                  [syms[i] EXCEPT !.productions =
                      [k \in DOMAIN @ |-> IF @[k] > 0 THEN -ctx.ncomp ELSE @[k]]]]
    /\ prods' = <<>>
    /\ productions' = <<>>
    /\ alts' = <<>>
    /\ cur' = <<>>
    /\ ctx' = NewContext(ignore_case, ctx.ncomp + 1)
    /\ pc' = "parse"
    /\ g' = NoGrammar
    /\ UNCHANGED <<rhs_probe, pg_files, imports,
                   grammar_parser, callers>>

-----------------------------------------------------------------------------
(* The compilations explored: what a grammar file may contain *)

Ref(name) == [kind |-> "ref", text |-> name]
Str(text) == [kind |-> "str", text |-> text]
RegEx(text) == [kind |-> "regex", text |-> text]
Use(gs, rep_op, sep) == [gs |-> gs, rep_op |-> rep_op, sep |-> sep]

CoreUses ==
    { Use(Ref("A"), None, None), Use(Ref("t"), None, None),
      Use(Str("if"), None, None) }
CoreRuleNames == {"A"}
CoreTermNames == {"t", "A"}
CoreBodies == {Str("if")}

Call(file_path, start_symbol, no_check) ==
    [file_path |-> file_path, start_symbol |-> start_symbol, no_check |-> no_check]

CoreCalls ==
    { Call(None, None, FALSE), Call("g.pg", None, FALSE),
      Call("g.pg", None, TRUE), Call("g.pg", "A", TRUE), Call("g.pg", "B", TRUE) }

(* Spec: one compilation of a grammar of rules, terminal rules and inline  *)
(* literals, and every way of calling the constructor.                     *)
Init == ParseInit(FALSE)

Next ==
    \/ \E u \in CoreUses : ActRepeatableGSymbol(u.gs, u.rep_op, u.sep)
    \/ ActProduction
    \/ \E name \in CoreRuleNames : ActProductionRule(name)
    \/ \E name \in CoreTermNames, body \in CoreBodies : ActTermRule(name, body)
    \/ ActPGFile
    \/ \E c \in CoreCalls : GrammarInit(c.file_path, c.start_symbol, c.no_check)

Spec == Init /\ [][Next]_vars

(* SpecRep: one compilation that uses the repetition operators *)
RepUses ==
    { Use(Ref("t"), rep_op, sep) : rep_op \in {"+", "*", "?"}, sep \in {None, "t"} }
      \cup { Use(Ref("t"), None, None) }
RepCalls == { Call("g.pg", None, TRUE) }

NextRep ==
    \/ \E u \in RepUses : ActRepeatableGSymbol(u.gs, u.rep_op, u.sep)
    \/ ActProduction
    \/ ActProductionRule("A")
    \/ ActTermRule("t", Str("if"))
    \/ ActPGFile
    \/ \E c \in RepCalls : GrammarInit(c.file_path, c.start_symbol, c.no_check)

SpecRep == Init /\ [][NextRep]_vars

(* SpecKeyword: one compilation with a KEYWORD rule and literal terminals, *)
(* case-sensitive or not.                                                  *)
KeywordUses == { Use(Str("if"), None, None), Use(Str("+"), None, None) }
KeywordTermRules ==
    { [name |-> "KEYWORD", body |-> RegEx("[a-z]+")],
      [name |-> "KEYWORD", body |-> Str("if")],
      [name |-> "t", body |-> Str("IF")],
      [name |-> "t", body |-> Str("if+")] }

InitKeyword == \E ignore_case \in BOOLEAN : ParseInit(ignore_case)

NextKeyword ==
    \/ \E u \in KeywordUses : ActRepeatableGSymbol(u.gs, u.rep_op, u.sep)
    \/ ActProduction
    \/ ActProductionRule("A")
    \/ \E r \in KeywordTermRules : ActTermRule(r.name, r.body)
    \/ ActPGFile
    \/ \E c \in RepCalls : GrammarInit(c.file_path, c.start_symbol, c.no_check)

SpecKeyword == InitKeyword /\ [][NextKeyword]_vars

(* SpecProcess: several compilations, one after the other, in one process *)
ProcessCalls == { Call("g.pg", None, TRUE), Call("g.pg", None, FALSE) }

NextProcess ==
    \/ ActRepeatableGSymbol(Ref("A"), None, None)
    \/ ActRepeatableGSymbol(Ref("t"), None, None)
    \/ ActProduction
    \/ ActProductionRule("A")
    \/ ActPGFile
    \/ \E c \in ProcessCalls : GrammarInit(c.file_path, c.start_symbol, c.no_check)
    \/ NewCompilation(FALSE)

SpecProcess == Init /\ [][NextProcess]_vars

(* SpecRecognizers: one compilation with a terminal declared without a    *)
(* body, constructed with and without recognizers and the no-check flag.   *)
Override == FunctionRecognizer("override")
RecognizerArgs ==
    { NoRecognizers, Recognizers([n \in {"t"} |-> Override]),
      Recognizers([n \in {"e"} |-> Override]) }

NextRecognizers ==
    \/ \E name \in {"t", "e"} : ActRepeatableGSymbol(Ref(name), None, None)
    \/ ActProduction
    \/ ActProductionRule("A")
    \/ ActTermRule("t", Str("if"))
    \/ ActTermRuleEmptyBody("e")
    \/ ActPGFile
    \/ \E recognizers \in RecognizerArgs, no_check \in BOOLEAN :
          GrammarInitWith("g.pg", recognizers, None, no_check)

SpecRecognizers == Init /\ [][NextRecognizers]_vars

(* SpecAction: one compilation whose rules carry @action tags *)
ActionNames == {"a", "b"}

NextAction ==
    \/ ActRepeatableGSymbol(Ref("A"), None, None)
    \/ ActProduction
    \/ ActProductionRule("A")
    \/ ActTermRule("A", Str("if"))
    \/ \E action \in ActionNames : ActRuleWithAction(action)
    \/ ActPGFile
    \/ \E c \in RepCalls : GrammarInit(c.file_path, c.start_symbol, c.no_check)

SpecAction == Init /\ [][NextAction]_vars

(* SpecDecl: one compilation of terminal declarations, one of them named  *)
(* LAYOUT, and a rule that uses a terminal plainly or repeated.            *)
DeclUses == { Use(Ref("t"), None, None), Use(Ref("t"), "+", None) }
DeclTermRules ==
    { [name |-> "t", body |-> Str("if")], [name |-> "LAYOUT", body |-> Str("+")] }

NextDecl ==
    \/ \E u \in DeclUses : ActRepeatableGSymbol(u.gs, u.rep_op, u.sep)
    \/ ActProduction
    \/ ActProductionRule("A")
    \/ \E r \in DeclTermRules : ActTermRule(r.name, r.body)
    \/ ActPGFile
    \/ \E c \in RepCalls : GrammarInit(c.file_path, c.start_symbol, c.no_check)

SpecDecl == Init /\ [][NextDecl]_vars

-----------------------------------------------------------------------------
(* ProductionRHS probed on its own: a backing sequence over resolved       *)
(* symbols, then len() and one indexing.                                   *)

ProbeSymbols == ModuleSymbols \o <<NonTerminal("A"), Terminal("b", StringRecognizer("b", FALSE))>>
ProbeElems == { SymElem(ProbeSymbols, EMPTY), SymElem(ProbeSymbols, 5),
                SymElem(ProbeSymbols, 6) }

SeqsUpTo(S, n) == UNION { [1..k -> S] : k \in 0..n }

InitRHS ==
    /\ syms = ProbeSymbols
    /\ prods = <<>>
    /\ productions = <<>>
    /\ alts = <<>>
    /\ cur = <<>>
    /\ ctx = NewContext(FALSE, 1)
    /\ pc = "rhs"
    /\ g = NoGrammar
    /\ rhs_probe = NoProbe
    /\ pg_files = EmptyDict
    /\ imports = NoImports
    /\ grammar_parser = 0
    /\ callers = <<>>

(* ProductionRHS(backing) *)
NewRHS(backing) ==
    /\ pc = "rhs"
    /\ rhs_probe' = [backing |-> backing, idx |-> -1, item |-> NoneElem, len |-> -1]
    /\ UNCHANGED <<syms, prods, productions, alts, cur, ctx, pc, g, pg_files,
                   imports,
                   grammar_parser, callers>>

(* len(rhs) and rhs[idx] *)
ProbeRHS(idx) ==
    /\ pc = "rhs"
    /\ rhs_probe' = [rhs_probe EXCEPT !.idx = idx,
                                      !.item = RHSGetItem(rhs_probe.backing, idx),
                                      !.len = RHSLen(rhs_probe.backing)]
    /\ UNCHANGED <<syms, prods, productions, alts, cur, ctx, pc, g, pg_files,
                   imports,
                   grammar_parser, callers>>

NextRHS ==
    \/ \E backing \in SeqsUpTo(ProbeElems, MaxLen) : NewRHS(backing)
    \/ \E idx \in 0..MaxLen : ProbeRHS(idx)

SpecRHS == InitRHS /\ [][NextRHS]_vars

-----------------------------------------------------------------------------
(* The import registry (lines 767-804) *)

ImportPaths == {"a.pg", "b.pg", "c.pg"}

InitImport ==
    /\ syms = ModuleSymbols
    /\ prods = <<>>
    /\ productions = <<>>
    /\ alts = <<>>
    /\ cur = <<>>
    /\ ctx = NewContext(FALSE, 1)
    /\ pc = "import"
    /\ g = NoGrammar
    /\ rhs_probe = NoProbe
    /\ pg_files = EmptyDict
    /\ imports = NoImports
    /\ grammar_parser = 0
    /\ callers = <<>>

(* get_grammar_parser(debug, debug_colors) (line 1042) called with the     *)
(* positional arguments args: both parameters are required.                *)
get_grammar_parser(args) ==
    IF Len(args) # 2 THEN "TypeError" ELSE "grammar_parser"

(* PGFileImport(pg_files, file_path) (lines 784-787) *)
NewPGFileImport(file_path) ==
    /\ pc = "import"
    /\ Len(imports.objs) < MaxImports
    /\ imports' = [imports EXCEPT !.objs = Append(@, [file_path |-> file_path,
                                                      pg_file |-> 0])]
    /\ UNCHANGED <<syms, prods, productions, alts, cur, ctx, pc, g, rhs_probe,
                   pg_files,
                   grammar_parser, callers>>

(* The property PGFileImport.pg_file (lines 789-804) read on object i.  A  *)
(* PGFile instance is named by the ordinal of the parse that made it.      *)
PgFile(i) ==
    /\ pc = "import"
    /\ i \in DOMAIN imports.objs
    /\ LET self == imports.objs[i]
           parser == get_grammar_parser(<<>>)
           new_pg_file == Len(imports.parses) + 1
       IN IF self.pg_file # 0
          THEN /\ imports' = [imports EXCEPT !.result =
                                [obj |-> i, outcome |-> "returned",
                                 value |-> self.pg_file]]
               /\ UNCHANGED pg_files
          ELSE IF self.file_path \notin DOMAIN pg_files
          THEN IF parser = "TypeError"
               THEN /\ imports' = [imports EXCEPT !.result =
                                     [obj |-> i, outcome |-> "TypeError",
                                      value |-> 0]]
                    /\ UNCHANGED pg_files
               ELSE /\ pg_files' = DictSet(pg_files, self.file_path, new_pg_file)
                    /\ imports' = [imports EXCEPT
                                     !.objs[i].pg_file = new_pg_file,
                                     !.parses = Append(@, self.file_path),
                                     !.result = [obj |-> i, outcome |-> "returned",
                                                 value |-> new_pg_file]]
          ELSE /\ imports' = [imports EXCEPT
                                !.objs[i].pg_file = pg_files[self.file_path],
                                !.result = [obj |-> i, outcome |-> "returned",
                                            value |-> pg_files[self.file_path]]]
               /\ UNCHANGED pg_files
    /\ UNCHANGED <<syms, prods, productions, alts, cur, ctx, pc, g, rhs_probe,
                   grammar_parser, callers>>

NextImport ==
    \/ \E file_path \in ImportPaths : NewPGFileImport(file_path)
    \/ \E i \in 1..MaxImports : PgFile(i)

SpecImport == InitImport /\ [][NextImport]_vars

(* SpecNames: one compilation whose names end like the generated ones: a   *)
(* rule or terminal called t_1, a separator called opt (NAME, line 935,    *)
(* admits letters, digits and underscores).                                *)
NameUses ==
    { Use(Ref("t"), None, None), Use(Ref("t"), "+", None),
      Use(Ref("t"), "+", "opt"), Use(Ref("t_1"), "?", None) }
NameRuleNames == {"A", "t_1"}
NameTermRules ==
    { [name |-> "t", body |-> Str("if")], [name |-> "opt", body |-> Str("+")] }

NextNames ==
    \/ \E u \in NameUses : ActRepeatableGSymbol(u.gs, u.rep_op, u.sep)
    \/ ActProduction
    \/ \E name \in NameRuleNames : ActProductionRule(name)
    \/ \E r \in NameTermRules : ActTermRule(r.name, r.body)
    \/ ActPGFile
    \/ \E c \in RepCalls : GrammarInit(c.file_path, c.start_symbol, c.no_check)

SpecNames == Init /\ [][NextNames]_vars

(* SpecParser: callers of get_grammar_parser (lines 1039-1051) running in  *)
(* threads of one process, with nothing that serializes them.  A thread    *)
(* may be switched out between any two statements, so the test of the      *)
(* global and the construction that follows it are separate steps.         *)
PGFILE == 5
RULES == 6

(* The module-level symbols with the first two of the grammar-file         *)
(* non-terminals (lines 853-923).                                          *)
MetaSymbols == ModuleSymbols \o << NonTerminal("PGFile"), NonTerminal("Rules") >>

Callers == 1..MaxCallers

NoCaller ==
    [pc |-> "idle", debug |-> FALSE, debug_colors |-> FALSE,
     observed_empty |-> FALSE, made |-> 0, outcome |-> None, result |-> 0]

InitParser ==
    /\ syms = MetaSymbols
    /\ prods = <<>>
    /\ productions = <<>>
    /\ alts = <<>>
    /\ cur = <<>>
    /\ ctx = NewContext(FALSE, 1)
    /\ pc = "get_grammar_parser"
    /\ g = NoGrammar
    /\ rhs_probe = NoProbe
    /\ pg_files = EmptyDict
    /\ imports = NoImports
    /\ grammar_parser = 0
    /\ callers = [t \in Callers |-> NoCaller]

(* Lines 1049-1050 *)
SetPassNone(heap) ==
    [heap EXCEPT ![EMPTY].action = "pass_none", ![EOF].action = "pass_none"]

(* The parsers constructed so far *)
ParsersMade == {callers[t].made : t \in Callers} \ {0}

(* Caller t enters get_grammar_parser(debug, debug_colors) and evaluates   *)
(* `if not grammar_parser` (line 1044).  With the global set, the rest of  *)
(* the function (lines 1049-1051) follows.                                 *)
GetGrammarParserTest(t, debug, debug_colors) ==
    /\ pc = "get_grammar_parser"
    /\ callers[t].pc = "idle"
    /\ IF grammar_parser = 0
       THEN /\ callers' = [callers EXCEPT ![t].pc = "build",
                                          ![t].debug = debug,
                                          ![t].debug_colors = debug_colors,
                                          ![t].observed_empty = TRUE]
            /\ UNCHANGED syms
       ELSE /\ callers' = [callers EXCEPT ![t].pc = "returned",
                                          ![t].debug = debug,
                                          ![t].debug_colors = debug_colors,
                                          ![t].outcome = "returned",
                                          ![t].result = grammar_parser]
            /\ syms' = SetPassNone(syms)
    /\ UNCHANGED <<prods, productions, alts, cur, ctx, pc, g, rhs_probe,
                   pg_files, imports, grammar_parser>>

(* Caller t, having found the global empty, runs lines 1045-1051:          *)
(* Grammar.from_struct(pg_productions, PGFILE) (lines 704-707) constructs  *)
(* a Grammar with no file_path, and only if that returns is a Parser made  *)
(* and stored in the global.  Of pg_productions the first entry is kept;   *)
(* its LHS PGFILE is the start symbol handed over, which is also what the  *)
(* default gives.  The objects made by a construction that raises are      *)
(* garbage and are not kept in the heaps.                                  *)
GetGrammarParserBuild(t) ==
    /\ pc = "get_grammar_parser"
    /\ callers[t].pc = "build"
    /\ LET created == Alloc(prods, Production(PGFILE,
                                   <<SymElem(syms, RULES), SymElem(syms, EOF)>>,
                                   FALSE))
           st0 == [err |-> None, msg |-> <<>>, syms |-> syms, prods |-> created,
                   list |-> <<Len(created)>>, by_name |-> EmptyDict,
                   recog |-> EmptyDict, rec_to_term |-> EmptyDict,
                   terminals |-> {}, nonterminals |-> {}, start |-> 0,
                   recognizers |-> UnassignedRecognizers]
           st == grammar_init(st0, None, None, FALSE)
           parser == Cardinality(ParsersMade) + 1
       IN IF st.err # None
          THEN /\ callers' = [callers EXCEPT ![t].pc = "raised",
                                             ![t].outcome = st.err]
               /\ UNCHANGED <<syms, prods, grammar_parser>>
          ELSE /\ grammar_parser' = parser
               /\ syms' = SetPassNone(st.syms)
               /\ prods' = st.prods
               /\ callers' = [callers EXCEPT ![t].pc = "returned",
                                             ![t].made = parser,
                                             ![t].outcome = "returned",
                                             ![t].result = parser]
    /\ UNCHANGED <<productions, alts, cur, ctx, pc, g, rhs_probe, pg_files,
                   imports>>

NextParser ==
    \/ \E t \in Callers, debug \in BOOLEAN, debug_colors \in BOOLEAN :
          GetGrammarParserTest(t, debug, debug_colors)
    \/ \E t \in Callers : GetGrammarParserBuild(t)

SpecParser == InitParser /\ [][NextParser]_vars

-----------------------------------------------------------------------------
(* Properties *)

Constructed == pc = "done" /\ g.outcome = "ok"

FinalProductions == {productions[i] : i \in DOMAIN productions}

(* The symbol instances that occur in the constructed grammar: in its      *)
(* terminals, its nonterminals, and as LHS or RHS element of a production  *)
(* of its list.                                                            *)
Occurring ==
    g.terminals \cup g.nonterminals
      \cup {prods[p].symbol : p \in FinalProductions}
      \cup UNION {{prods[p].rhs[k].id : k \in {k \in DOMAIN prods[p].rhs :
                                                ~prods[p].rhs[k].ref}} :
                  p \in FinalProductions}

(* C1: after a successful construction productions[0] has prod_id 0, its   *)
(* LHS is S', its RHS is [start symbol, STOP] (symbols compare by name),   *)
(* and start_symbol is the named symbol when a name is given, otherwise    *)
(* the LHS of the first user production.                                   *)
C1_AugmentedProductionFirst ==
    Constructed =>
        LET p0 == prods[productions[1]]
        IN /\ p0.prod_id = 0
           /\ p0.symbol = AUGSYMBOL
           /\ syms[p0.symbol].name = "S'"
           /\ Len(p0.rhs) = 2
           /\ ~p0.rhs[1].ref /\ p0.rhs[1].name = syms[g.start_symbol].name
           /\ p0.rhs[2] = SymElem(syms, STOP)
           /\ IF g.start_arg # None
              THEN syms[g.start_symbol].name = g.start_arg
              ELSE g.start_symbol = g.before.prods[g.before.productions[1]].symbol

(* A grammar constructed with a named start symbol that is not the LHS of  *)
(* the first user production.                                              *)
C1_Witness ==
    /\ Constructed
    /\ g.start_arg # None
    /\ syms[g.before.prods[g.before.productions[1]].symbol].name # g.start_arg
    /\ Len(productions) >= 3

(* C2 as claimed: every occurring symbol is the instance stored under its  *)
(* name in symbols_by_name.                                                *)
C2_AllInSymbolsByName ==
    Constructed =>
        \A x \in Occurring :
            /\ syms[x].name \in DOMAIN g.symbols_by_name
            /\ g.symbols_by_name[syms[x].name] = x

(* C2 as amended: one instance per name occurs in the grammar; it is the   *)
(* instance stored under its name in symbols_by_name when the name is a    *)
(* key there, and otherwise a Terminal written inline, held in terminals.  *)
C2_OneInstancePerName ==
    Constructed =>
        /\ \A x, y \in Occurring : syms[x].name = syms[y].name => x = y
        /\ \A x \in Occurring :
              IF syms[x].name \in DOMAIN g.symbols_by_name
              THEN g.symbols_by_name[syms[x].name] = x
              ELSE syms[x].kind = "T" /\ x \in g.terminals

(* A constructed grammar in which an inline literal, absent from           *)
(* symbols_by_name, is written twice and occurs as one instance.           *)
C2_Witness ==
    /\ Constructed
    /\ \E p \in FinalProductions :
          /\ Len(prods[p].rhs) = 2
          /\ prods[p].rhs[1].name \notin DOMAIN g.symbols_by_name
          /\ prods[p].rhs[1] = prods[p].rhs[2]
          /\ g.before.prods[p].rhs[1].id # g.before.prods[p].rhs[2].id

(* C3: after a successful construction every RHS element of every         *)
(* production of the final list is a Terminal or NonTerminal instance.     *)
C3_NoReferenceRemains ==
    Constructed =>
        \A p \in FinalProductions : \A k \in DOMAIN prods[p].rhs :
            /\ ~prods[p].rhs[k].ref
            /\ prods[p].rhs[k].id \in DOMAIN syms
            /\ syms[prods[p].rhs[k].id].kind \in {"T", "NT"}

(* A constructed grammar whose list holds an auxiliary production with a   *)
(* separator, X_1_sep -> X_1_sep sep X, written with References.           *)
C3_Witness ==
    /\ Constructed
    /\ \E i \in DOMAIN ctx.new_productions :
          \E k \in DOMAIN ctx.new_productions[i].prods :
              LET p == ctx.new_productions[i].prods[k]
              IN /\ p \in FinalProductions
                 /\ Len(prods[p].rhs) = 3
                 /\ g.before.prods[p].rhs[2].ref
                 /\ g.before.prods[p].rhs[3].ref

NonEmptyOf(b) == SelectSeq(b, LAMBDA e : ~IsEMPTY(e))

(* C4: len(rhs) is the number of non-EMPTY elements, rhs[i] for            *)
(* 0 <= i < len(rhs) is the i-th non-EMPTY element of the backing          *)
(* sequence, and indexing never returns EMPTY.                             *)
C4_EmptyIsTransparent ==
    rhs_probe.idx >= 0 =>
        /\ rhs_probe.len = Len(NonEmptyOf(rhs_probe.backing))
        /\ rhs_probe.idx < rhs_probe.len =>
              rhs_probe.item = NonEmptyOf(rhs_probe.backing)[rhs_probe.idx + 1]
        /\ ~IsEMPTY(rhs_probe.item)

(* The names make_one_or_more gives, with the name of the zero-or-more    *)
(* built on each.                                                          *)
OneOrMoreNames == {"t_1", "t_1_t"}
ZeroOrMoreOf(one) == IF one = "t_1" THEN "t_0" ELSE "t_0_t"
SepOf(one) == IF one = "t_1" THEN None ELSE "t"

InstancesNamed(name) == {x \in DOMAIN syms : syms[x].name = name}

(* The productions of the list whose LHS is named `name`, by list position *)
ListedFor(name) ==
    {i \in DOMAIN productions : syms[prods[productions[i]].symbol].name = name}

(* The uses written so far: the elements of the alternative being read, of *)
(* the alternatives read and of every production allocated.                *)
UsesNamed(name) ==
    {cur[k] : k \in {k \in DOMAIN cur : cur[k].name = name}}
      \cup UNION {{alts[a][k] : k \in {k \in DOMAIN alts[a] : alts[a][k].name = name}} :
                  a \in DOMAIN alts}
      \cup UNION {{prods[p].rhs[k] : k \in {k \in DOMAIN prods[p].rhs :
                                             prods[p].rhs[k].name = name}} :
                  p \in DOMAIN prods}

Assembled == pc = "parsed" \/ Constructed

(* C5: within one compilation every use of X+ returns one and the same     *)
(* auxiliary non-terminal X_1, and the two productions of X_1 are in the   *)
(* final production list exactly once each.                                *)
C5_OneOrMoreMemoized ==
    \A one \in OneOrMoreNames :
        /\ Cardinality(InstancesNamed(one)) <= 1
        /\ \A e \in UsesNamed(one) : ~e.ref /\ e.id \in InstancesNamed(one)
        /\ (Assembled /\ InstancesNamed(one) # {}) =>
              /\ Cardinality(ListedFor(one)) = 2
              /\ \A i, j \in ListedFor(one) :
                    productions[i] = productions[j] => i = j
              /\ \A i \in ListedFor(one) :
                    prods[productions[i]].symbol \in InstancesNamed(one)

(* A constructed grammar whose rules use t+ at two places. *)
C5_Witness ==
    /\ Constructed
    /\ \E p, q \in FinalProductions : \E k \in DOMAIN prods[p].rhs,
                                         l \in DOMAIN prods[q].rhs :
          /\ <<p, k>> # <<q, l>>
          /\ syms[prods[p].symbol].name = "A"
          /\ syms[prods[q].symbol].name = "A"
          /\ prods[p].rhs[k].name = "t_1"
          /\ prods[q].rhs[l].name = "t_1"

RhsNames(p) == [k \in DOMAIN prods[p].rhs |-> prods[p].rhs[k].name]

(* C6: a compilation that uses X* holds exactly four auxiliary productions *)
(* for it: X_0 -> X_1 with nops set and the empty X_0 production for one   *)
(* X_0, X_1 -> X_1 X and X_1 -> X for one X_1 (with the separator between  *)
(* X_1 and X when one is given), however X+ was used.                      *)
C6_ZeroOrMoreFourProductions ==
    \A one \in OneOrMoreNames :
        LET zero == ZeroOrMoreOf(one)
        IN (Assembled /\ InstancesNamed(zero) # {}) =>
              /\ Cardinality(InstancesNamed(zero)) = 1
              /\ Cardinality(InstancesNamed(one)) = 1
              /\ Cardinality(ListedFor(zero)) = 2
              /\ Cardinality(ListedFor(one)) = 2
              /\ \E i, j \in ListedFor(zero) :
                    /\ RhsNames(productions[i]) = <<one>>
                    /\ prods[productions[i]].nops
                    /\ prods[productions[i]].rhs[1].id \in InstancesNamed(one)
                    /\ RHSLen(prods[productions[j]].rhs) = 0
                    /\ ~prods[productions[j]].nops
              /\ \E i, j \in ListedFor(one) :
                    /\ RhsNames(productions[i]) =
                          IF SepOf(one) = None THEN <<one, "t">>
                          ELSE <<one, SepOf(one), "t">>
                    /\ RhsNames(productions[j]) = <<"t">>

(* A constructed grammar whose rule uses t+ and then t*. *)
C6_Witness ==
    /\ Constructed
    /\ \E p \in FinalProductions :
          /\ syms[prods[p].symbol].name = "A"
          /\ RhsNames(p) = <<"t_1", "t_0">>

(* C7: every pg_file access returns the PGFile stored in the registry      *)
(* under the import's path, and no path is parsed twice.                   *)
C7_ImportReturnsCachedInstance ==
    /\ \A a, b \in DOMAIN imports.parses :
          imports.parses[a] = imports.parses[b] => a = b
    /\ imports.result.outcome # None =>
          LET file_path == imports.objs[imports.result.obj].file_path
          IN /\ imports.result.outcome = "returned"
             /\ file_path \in DOMAIN pg_files
             /\ imports.result.value = pg_files[file_path]

(* The KEYWORD terminal of the constructed grammar, 0 if there is none *)
KeywordTerminal ==
    IF \E x \in g.terminals : syms[x].name = "KEYWORD"
    THEN CHOOSE x \in g.terminals : syms[x].name = "KEYWORD"
    ELSE 0

(* The pattern matches the whole of the literal, from position 0 *)
MatchesWhole(rec, literal) ==
    /\ Chars(literal) # <<>>
    /\ \A k \in DOMAIN Chars(literal) :
          InClass(rec.value, rec.ignore_case, Chars(literal)[k])

(* C8: when a terminal KEYWORD with a pattern recognizer exists, a         *)
(* terminal of the constructed grammar is a keyword with the word-boundary *)
(* pattern of its literal, same case sensitivity, exactly when it had a    *)
(* literal recognizer that the KEYWORD pattern matches whole; every other  *)
(* terminal keeps its recognizer and is no keyword.                        *)
C8_KeywordNormalization ==
    (Constructed /\ KeywordTerminal # 0
       /\ syms[KeywordTerminal].recognizer.kind = "regex") =>
        \A x \in g.terminals :
            LET was == g.before.syms[x].recognizer
            IN IF was.kind = "str"
                  /\ MatchesWhole(g.before.syms[KeywordTerminal].recognizer, was.value)
               THEN /\ syms[x].keyword
                    /\ syms[x].recognizer = WordBoundaryRegEx(was.value, was.ignore_case)
               ELSE /\ ~syms[x].keyword
                    /\ syms[x].recognizer = was

(* A constructed grammar with a KEYWORD pattern, a literal it matches      *)
(* whole and a literal of which it matches a prefix only.                  *)
C8_Witness ==
    /\ Constructed
    /\ KeywordTerminal # 0
    /\ syms[KeywordTerminal].recognizer.kind = "regex"
    /\ \E x, y \in g.terminals :
          /\ syms[x].keyword /\ syms[x].recognizer.wb
          /\ g.before.syms[y].recognizer.kind = "str"
          /\ RegExCall(syms[KeywordTerminal].recognizer,
                       Chars(g.before.syms[y].recognizer.value), 0).matched
          /\ ~syms[y].keyword

(* C9: whenever a construction has ended, the module-level symbols S',     *)
(* STOP, EMPTY and EOF are as they were before the first construction.     *)
C9_SharedSymbolsUnchanged ==
    pc = "done" =>
        \A x \in DOMAIN ModuleSymbols : syms[x] = ModuleSymbols[x]

(* C10: a construction that fails with GrammarError leaves the caller's    *)
(* production list, every production's LHS and RHS, and every              *)
(* NonTerminal's productions as they were before the call.                 *)
C10_FailureIsAtomic ==
    (pc = "done" /\ g.outcome = "GrammarError") =>
        /\ productions = g.before.productions
        /\ \A p \in DOMAIN g.before.prods :
              /\ prods[p].symbol = g.before.prods[p].symbol
              /\ prods[p].rhs = g.before.prods[p].rhs
        /\ \A x \in DOMAIN g.before.syms :
              g.before.syms[x].kind = "NT" =>
                  syms[x].productions = g.before.syms[x].productions

(* The names declared by the production list handed to the constructor:  *)
(* the names of the LHS symbols of its productions.                        *)
DeclaredNames ==
    {g.before.syms[g.before.prods[g.before.productions[i]].symbol].name :
        i \in DOMAIN g.before.productions}

(* Some RHS element of the list handed over is a Reference to a name that  *)
(* is neither declared nor one of EMPTY, EOF, STOP.                        *)
HasUnknownReference ==
    \E i \in DOMAIN g.before.productions :
        LET rhs == g.before.prods[g.before.productions[i]].rhs
        IN \E k \in DOMAIN rhs :
              /\ rhs[k].ref
              /\ rhs[k].name \notin DeclaredNames \cup {"EMPTY", "EOF", "STOP"}

(* C11: a construction from a production list with a Reference to an       *)
(* unknown name ends with GrammarError.                                    *)
C11_UnknownReferenceRaisesGrammarError ==
    (pc = "done" /\ HasUnknownReference) => g.outcome = "GrammarError"

(* C12: a construction whose start symbol is given by a name that no       *)
(* production's LHS has ends with GrammarError.                            *)
C12_UnknownStartRaisesGrammarError ==
    (pc = "done" /\ g.start_arg # None /\ g.start_arg \notin DeclaredNames) =>
        g.outcome = "GrammarError"

(* After symbol collection some terminal has no recognizer and the        *)
(* recognizers given have no entry for its name.                           *)
MissingRecognizer ==
    \E x \in g.terminals :
        /\ x \in DOMAIN g.before.syms
        /\ g.before.syms[x].recognizer.kind = "none"
        /\ g.before.syms[x].name \notin DOMAIN g.recognizers.map

(* C13: a construction with a terminal left without recognizer ends with   *)
(* GrammarError, unless the no-check flag is set: then it proceeds, and    *)
(* completes when every reference is known.                                *)
C13_MissingRecognizerRaisesGrammarError ==
    (pc = "done" /\ MissingRecognizer) =>
        IF g.no_check
        THEN g.outcome = "ok" \/ HasUnknownReference
        ELSE g.outcome = "GrammarError"

(* C14: after a construction given recognizers, every terminal whose name  *)
(* has an entry has that entry as its recognizer, and every other terminal *)
(* keeps the recognizer the grammar declares.                              *)
C14_OverridesTakePrecedence ==
    (Constructed /\ g.recognizers.given) =>
        \A x \in g.terminals :
            IF syms[x].name \in DOMAIN g.recognizers.map
            THEN syms[x].recognizer = g.recognizers.map[syms[x].name]
            ELSE syms[x].recognizer = g.before.syms[x].recognizer

(* The @action tag of the rule that declared production p of the list    *)
(* handed over.                                                            *)
DeclaredAction(p) == g.before.syms[g.before.prods[p].symbol].action_name

(* Some name is declared by two rules whose @action tags differ *)
ConflictingActions ==
    \E i, j \in DOMAIN g.before.productions :
        LET p == g.before.productions[i]
            q == g.before.productions[j]
        IN /\ g.before.syms[g.before.prods[p].symbol].name =
                 g.before.syms[g.before.prods[q].symbol].name
           /\ DeclaredAction(p) # None
           /\ DeclaredAction(q) # None
           /\ DeclaredAction(p) # DeclaredAction(q)

(* C15: a construction from rules that declare one name with different    *)
(* @action tags ends with GrammarError.                                    *)
C15_ConflictingActionsRaiseGrammarError ==
    (pc = "done" /\ ConflictingActions) => g.outcome = "GrammarError"

(* make_optional called for t?[t] on the context as it is now *)
OptionalWithSeparator ==
    make_optional(Machine(syms, prods, ctx.new_productions),
                  Reference("t"), Reference("t"))

(* C16: a use of `?` with a separator raises GrammarError and leaves no    *)
(* entry in context.new_productions, so that the same use on the same      *)
(* context raises again and returns no auxiliary symbol.                   *)
C16_OptionalWithSeparatorRaises ==
    /\ NPIndex(ctx.new_productions, "t_opt_t") = 0
    /\ InstancesNamed("t_opt_t") # {} =>
          pc = "failed" /\ g.outcome = "GrammarError"
    /\ OptionalWithSeparator.err = "GrammarError"
    /\ OptionalWithSeparator.nt = 0
    /\ OptionalWithSeparator.np = ctx.new_productions

(* The compilation failed at t?[t] after other repetitions were registered *)
C16_Witness ==
    /\ pc = "failed"
    /\ InstancesNamed("t_opt_t") # {}
    /\ NPIndex(ctx.new_productions, "t_opt") # 0

(* The productions handed to the constructor *)
GivenProductions == {g.before.productions[i] : i \in DOMAIN g.before.productions}

(* C17: after construction the production at position i of the final list *)
(* has prod_id i (counted from 0), and its prod_symbol_id is the number of *)
(* productions of the same LHS symbol before it in the list.               *)
C17_ProductionsEnumerated ==
    Constructed =>
        \A i \in DOMAIN productions :
            /\ prods[productions[i]].prod_id = i - 1
            /\ prods[productions[i]].prod_symbol_id =
                  Cardinality({j \in 1..(i - 1) :
                      prods[productions[j]].symbol = prods[productions[i]].symbol})

(* A constructed grammar from which a terminal production was removed and  *)
(* in which a rule has two alternatives after it.                          *)
C17_Witness ==
    /\ Constructed
    /\ \E p \in GivenProductions : p \notin FinalProductions
    /\ g.before.productions[1] \notin FinalProductions
    /\ \E i \in DOMAIN productions : prods[productions[i]].prod_symbol_id = 1

(* Some production handed over has a NonTerminal as its LHS once the       *)
(* grammar is constructed.                                                 *)
HasNonTerminalProduction ==
    \E p \in GivenProductions : syms[prods[p].symbol].kind = "NT"

(* C18: after construction the productions whose LHS is a Terminal other   *)
(* than LAYOUT are absent from the final list when the grammar has a       *)
(* non-terminal production and all retained when it has none, and a        *)
(* LAYOUT production is always retained.                                   *)
C18_TerminalProductionsPruned ==
    Constructed =>
        /\ \A p \in GivenProductions :
              syms[prods[p].symbol].name = "LAYOUT" => p \in FinalProductions
        /\ IF HasNonTerminalProduction
           THEN \A p \in GivenProductions :
                   (syms[prods[p].symbol].kind = "T"
                      /\ syms[prods[p].symbol].name # "LAYOUT") =>
                         p \notin FinalProductions
           ELSE \A p \in GivenProductions : p \in FinalProductions

(* The declarations of the name n in the list handed over: all, and those  *)
(* whose LHS was declared as a Terminal / as a NonTerminal.                *)
Declarations(n) ==
    {p \in GivenProductions : g.before.syms[g.before.prods[p].symbol].name = n}
TerminalDeclarations(n) ==
    {p \in Declarations(n) : g.before.syms[g.before.prods[p].symbol].kind = "T"}
RuleDeclarations(n) == Declarations(n) \ TerminalDeclarations(n)

(* C19: after construction a name with two or more terminal declarations,  *)
(* or with a terminal declaration and a rule, is bound to one NonTerminal  *)
(* that is the LHS of every production declared under the name; without a  *)
(* rule of that name the NonTerminal is a new one, made once by each of    *)
(* the two collection passes and not once per declaration.                 *)
C19_RepeatedTerminalPromoted ==
    Constructed =>
        \A n \in DeclaredNames :
            (Cardinality(TerminalDeclarations(n)) >= 2
               \/ (TerminalDeclarations(n) # {} /\ RuleDeclarations(n) # {})) =>
                /\ n \in DOMAIN g.symbols_by_name
                /\ syms[g.symbols_by_name[n]].kind = "NT"
                /\ g.symbols_by_name[n] \in g.nonterminals
                /\ \A p \in Declarations(n) : prods[p].symbol = g.symbols_by_name[n]
                /\ RuleDeclarations(n) = {} =>
                      /\ g.symbols_by_name[n] \notin DOMAIN g.before.syms
                      /\ Cardinality({x \in DOMAIN syms \ DOMAIN g.before.syms :
                                         syms[x].name = n}) = 2

(* A constructed grammar with three terminal declarations of one name *)
C19_Witness ==
    /\ Constructed
    /\ \E n \in DeclaredNames :
          /\ Cardinality(TerminalDeclarations(n)) = 3
          /\ \A p \in TerminalDeclarations(n) :
                /\ p \in FinalProductions
                /\ g.before.prods[p].symbol # prods[p].symbol

(* C20: after construction the productions of every NonTerminal of the     *)
(* grammar other than S' are the productions of the final list that have   *)
(* it as LHS, each once and in list order.                                 *)
C20_NonTerminalOwnsItsProductions ==
    Constructed =>
        \A N \in g.nonterminals \ {AUGSYMBOL} :
            syms[N].productions =
                SelectSeq(productions, LAMBDA p : prods[p].symbol = N)

(* A constructed grammar with a promoted terminal of two declarations and  *)
(* an auxiliary repetition non-terminal.                                   *)
C20_Witness ==
    /\ Constructed
    /\ \E N \in g.nonterminals :
          /\ N \notin DOMAIN g.before.syms
          /\ Len(syms[N].productions) = 2
    /\ \E N \in g.nonterminals :
          /\ syms[N].name = "t_1"
          /\ Len(syms[N].productions) = 2

(* The triple an entry of context.new_productions was built for, read off  *)
(* its productions: X_0 has a nops production over the one-or-more symbol, *)
(* X_1 a recursive production with or without separator and one over the   *)
(* base, X_opt one over the base and an empty one.                         *)
AuxOperator(np, ps, e) ==
    IF ps[e.prods[1]].nops THEN "*"
    ELSE IF Len(ps[e.prods[1]].rhs) >= 2 THEN "+" ELSE "?"

AuxInner(np, ps, e) ==
    IF AuxOperator(np, ps, e) = "*"
    THEN np[CHOOSE i \in DOMAIN np : np[i].nt = ps[e.prods[1]].rhs[1].id]
    ELSE e

AuxBase(np, ps, e) ==
    LET inner == AuxInner(np, ps, e)
    IN IF AuxOperator(np, ps, inner) = "+"
       THEN ps[inner.prods[2]].rhs[1].name
       ELSE ps[inner.prods[1]].rhs[1].name

AuxSeparator(np, ps, e) ==
    LET inner == AuxInner(np, ps, e)
        first == ps[inner.prods[1]].rhs
    IN IF AuxOperator(np, ps, inner) = "+" /\ Len(first) = 3
       THEN first[2].name ELSE None

(* The names of the rules and terminal rules read so far *)
UserDeclaredNames ==
    {syms[prods[productions[i]].symbol].name : i \in DOMAIN productions}

(* C21: a repetition use of (base, operator, separator) yields an          *)
(* auxiliary non-terminal that was built for that same triple, so distinct *)
(* triples never share a generated name, and no generated name is the name *)
(* of a rule the grammar file declares.                                    *)
C21_GeneratedNamesCollisionFree ==
    [][ /\ \A u \in NameUses :
              ( /\ u.rep_op # None
                /\ ActRepeatableGSymbol(u.gs, u.rep_op, u.sep)
                /\ pc' = "parse" ) =>
                  LET np == ctx'.new_productions
                      e == np[CHOOSE i \in DOMAIN np :
                                 np[i].nt = cur'[Len(cur')].id]
                  IN /\ AuxBase(np, prods', e) = u.gs.text
                     /\ AuxOperator(np, prods', e) = u.rep_op
                     /\ AuxSeparator(np, prods', e) = u.sep
        /\ pc' = "parse" =>
              \A i \in DOMAIN ctx'.new_productions :
                  ctx'.new_productions[i].name \notin UserDeclaredNames'
      ]_vars

(* The construction got as far as _resolve_references.  In Spec no rule    *)
(* carries an action and no terminal is named KEYWORD, so every            *)
(* GrammarError comes from _resolve_references and every other exception   *)
(* from a statement before it.                                             *)
ResolutionReached == pc = "done" /\ g.outcome \in {"ok", "GrammarError"}

(* The LHS a production of the list handed over has when it is resolved *)
ResolvedLhs(p) ==
    g.symbols_by_name[g.before.syms[g.before.prods[p].symbol].name]

(* The RHS positions <<p, k>> of the list handed over whose name is not in *)
(* the name index.                                                         *)
UnindexedElements ==
    {e \in (DOMAIN g.before.prods) \X (1..MaxElems) :
        /\ e[1] \in {g.before.productions[i] : i \in DOMAIN g.before.productions}
        /\ e[2] \in DOMAIN g.before.prods[e[1]].rhs
        /\ g.before.prods[e[1]].rhs[e[2]].name \notin DOMAIN g.symbols_by_name}

ElementName(e) == g.before.prods[e[1]].rhs[e[2]].name

(* Those in a non-terminal production that equal a registered recognizer   *)
(* text, those in a terminal's declaration, and those that are unknown.    *)
ConflictingElements ==
    {e \in UnindexedElements :
        /\ syms[ResolvedLhs(e[1])].kind = "NT"
        /\ ElementName(e) \in DOMAIN g.recog_to_terminals}

OwnDeclarationElements ==
    {e \in UnindexedElements :
        /\ syms[ResolvedLhs(e[1])].kind = "T"
        /\ ElementName(e) \in DOMAIN g.recog_to_terminals}

UnknownElements ==
    {e \in UnindexedElements \ ConflictingElements :
        ~IsTerminal(g.before.syms, g.before.prods[e[1]].rhs[e[2]])}

(* C22: when reference resolution meets, in a non-terminal production, an  *)
(* element whose name is not in the name index but is the recognizer text  *)
(* registered for a terminal rule, the construction ends with GrammarError *)
(* and the message names that text, the production's symbol and the        *)
(* registered terminal (unless an unknown symbol is reported first); such  *)
(* an element in a terminal's own declaration raises nothing.              *)
C22_RecognizerTextConflictRaises ==
    ResolutionReached =>
        /\ ConflictingElements # {} => g.outcome = "GrammarError"
        /\ (ConflictingElements # {} /\ UnknownElements = {}) =>
              \E e \in ConflictingElements :
                  g.message = <<"already exists by the name", ElementName(e),
                                syms[ResolvedLhs(e[1])].name,
                                syms[g.recog_to_terminals[ElementName(e)]].name>>
        /\ (ConflictingElements = {} /\ UnknownElements = {}) => g.outcome = "ok"

(* A construction stopped by the conflict after the terminal's own         *)
(* declaration, with the same literal, was resolved.                       *)
C22_Witness ==
    /\ ResolutionReached
    /\ g.outcome = "GrammarError"
    /\ g.message[1] = "already exists by the name"
    /\ \E c \in ConflictingElements, o \in OwnDeclarationElements :
          /\ ElementName(c) = ElementName(o)
          /\ \E i, j \in DOMAIN g.before.productions :
                /\ g.before.productions[i] = o[1]
                /\ g.before.productions[j] = c[1]
                /\ i < j

(* The display form of a ProductionRHS (__str__, lines 285-286): the names *)
(* of the elements of its backing sequence, in order.                      *)
RhsDisplay(rhs) == [k \in DOMAIN rhs |-> rhs[k].name]

(* The productions that make_zero_or_more and make_optional construct from *)
(* ProductionRHS([EMPTY]): the second production of an X_0 or X_opt entry. *)
EmptyAlternatives ==
    {ctx.new_productions[i].prods[2] :
        i \in {i \in DOMAIN ctx.new_productions :
                 AuxOperator(ctx.new_productions, prods, ctx.new_productions[i])
                    \in {"*", "?"}}}

(* C24: a Production constructed from an RHS that holds only EMPTY keeps   *)
(* EMPTY in the backing sequence of its rhs: the display form shows EMPTY  *)
(* and the length is 0.                                                    *)
C24_EmptyOnlyRhsKeepsEmpty ==
    \A p \in EmptyAlternatives :
        /\ RhsDisplay(prods[p].rhs) = <<"EMPTY">>
        /\ \A k \in DOMAIN prods[p].rhs : IsEMPTY(prods[p].rhs[k])
        /\ RHSLen(prods[p].rhs) = 0

(* C25: after a successful construction start_symbol is the very instance  *)
(* that symbols_by_name holds for its name, and the very instance that is  *)
(* the first RHS element of production 0.                                  *)
C25_StartSymbolIsCanonical ==
    Constructed =>
        /\ g.start_symbol = g.symbols_by_name[syms[g.start_symbol].name]
        /\ ~prods[productions[1]].rhs[1].ref
        /\ g.start_symbol = prods[productions[1]].rhs[1].id

(* The callers that found the global empty and have left the function *)
FoundEmptyAndLeft ==
    {t \in Callers : callers[t].observed_empty
                        /\ callers[t].pc \in {"returned", "raised"}}

(* C23: callers of get_grammar_parser that are not serialized can both     *)
(* find the cache empty, and callers that found it empty each construct a  *)
(* parser, so that two parsers are constructed.                            *)
C23_UnserializedCallersBothConstruct ==
    \A t, u \in FoundEmptyAndLeft :
        /\ callers[t].made # 0
        /\ t # u => callers[t].made # callers[u].made

====
